---- MODULE Spec2Model ----
(***************************************************************************)
(* Model of the library inventory manager of                               *)
(* src/Lab_Assignment-3/Library_manager.py: the Book / ReferenceBook       *)
(* records, their dict codec, the LibraryInventory store with its          *)
(* save_catalog / load_catalog protocol, and the issue / return entry      *)
(* points of the command loop.                                             *)
(*                                                                         *)
(* Text is modelled as a sequence of one-character strings, so that        *)
(* str.strip() and str.lower() are computed rather than assumed.  A file   *)
(* is modelled by what json.loads makes of its text.                       *)
(***************************************************************************)
EXTENDS Integers, Sequences, FiniteSets, TLC

VARIABLES
    books,      \* LibraryInventory.books: the in-memory record sequence
    disk,       \* content of the file at catalog_path
    backup,     \* content of the file at catalog_path.with_suffix(".backup.json")
    running,    \* whether a process (and so a LibraryInventory) is alive
    res,        \* history: the last operation, its argument, what it returned and its outcome
    detected,   \* history: corrupted content load last detected and was not told to reset
    ops,        \* history: the number of operations run so far
    saved       \* history: the record sequence of the last successful save, while the file still holds it

vars == <<books, disk, backup, running, res, detected, ops, saved>>

----------------------------------------------------------------------------
(* Bounds *)

MaxBooks == 2       \* add_book appends no record to a store that holds this many
MaxOps == 5         \* operations in one behaviour

----------------------------------------------------------------------------
(* Text *)

WS == {" ", "\n"}

LowerOf ==
    [A |-> "a", B |-> "b", C |-> "c", D |-> "d", E |-> "e", F |-> "f", G |-> "g",
     H |-> "h", I |-> "i", J |-> "j", K |-> "k", L |-> "l", M |-> "m", N |-> "n",
     O |-> "o", P |-> "p", Q |-> "q", R |-> "r", S |-> "s", T |-> "t", U |-> "u",
     V |-> "v", W |-> "w", X |-> "x", Y |-> "y", Z |-> "z"]

\* str.lower()
lower(s) == [i \in 1..Len(s) |-> IF s[i] \in DOMAIN LowerOf THEN LowerOf[s[i]] ELSE s[i]]

RECURSIVE strip(_)
\* str.strip(): leading and trailing whitespace removed
strip(s) ==
    IF s = <<>> THEN <<>>
    ELSE IF Head(s) \in WS THEN strip(Tail(s))
    ELSE IF s[Len(s)] \in WS THEN strip(SubSeq(s, 1, Len(s) - 1))
    ELSE s

\* str.capitalize(): the first character in upper case, the others in lower case
upper(c) ==
    IF \E u \in DOMAIN LowerOf : LowerOf[u] = c
    THEN CHOOSE u \in DOMAIN LowerOf : LowerOf[u] = c
    ELSE c
capitalize(s) == IF s = <<>> THEN <<>> ELSE <<upper(s[1])>> \o lower(Tail(s))

\* q in t, for two strings
Contains(q, t) == \E k \in 0..(Len(t) - Len(q)) : SubSeq(t, k + 1, k + Len(q)) = q

Available == <<"a", "v", "a", "i", "l", "a", "b", "l", "e">>
IssuedStatus == <<"i", "s", "s", "u", "e", "d">>

----------------------------------------------------------------------------
(* Book and ReferenceBook *)

\* Book.__init__ (ReferenceBook inherits it); cls is the Python class of the object
NewRecord(cls, title, author, isbn, status) ==
    [title |-> strip(title), author |-> strip(author), isbn |-> strip(isbn),
     status |-> lower(strip(status)), cls |-> cls]

Book(title, author, isbn, status) == NewRecord("Book", title, author, isbn, status)

ReferenceBook(title, author, isbn, status) ==
    NewRecord("ReferenceBook", title, author, isbn, status)

to_dict_untyped(b) ==
    [title |-> b.title, author |-> b.author, isbn |-> b.isbn, status |-> b.status,
     type |-> "Book"]

\* Book.to_dict
to_dict(b) ==
    [title |-> b.title, author |-> b.author, isbn |-> b.isbn, status |-> b.status,
     type |-> b.cls]

\* dict.get(key, default)
Get(data, key, default) == IF key \in DOMAIN data THEN data[key] ELSE default

\* A JSON value that is not an object is modelled as a record with the one field "scalar"
IsObject(data) == "scalar" \notin DOMAIN data

\* Book.from_dict returns (rather than raising AttributeError or KeyError)
from_dict_ok(data) == IsObject(data) /\ {"title", "author", "isbn"} \subseteq DOMAIN data

from_dict_as_book(data) ==
    Book(data.title, data.author, data.isbn, Get(data, "status", Available))

\* Book.from_dict, where from_dict_ok
from_dict(data) ==
    IF Get(data, "type", "Book") = "ReferenceBook"
    THEN ReferenceBook(data.title, data.author, data.isbn, Get(data, "status", Available))
    ELSE Book(data.title, data.author, data.isbn, Get(data, "status", Available))

\* Book.is_available
is_available(b) == b.status = Available

\* Book.__str__ and its override ReferenceBook.__str__
str(b) ==
    b.title \o <<" ", "b", "y", " ">> \o b.author
        \o <<" ", "(", "I", "S", "B", "N", ":", " ">> \o b.isbn \o <<")", " ", "-", " ">>
        \o (IF b.cls = "ReferenceBook"
            THEN <<"R", "e", "f", "e", "r", "e", "n", "c", "e", " ", "(", "A", "l", "w",
                   "a", "y", "s", " ", "i", "n", "-", "l", "i", "b", "r", "a", "r", "y", ")">>
            ELSE capitalize(b.status))

issue_any(b) ==
    IF is_available(b) THEN [book |-> [b EXCEPT !.status = IssuedStatus], ret |-> TRUE]
    ELSE [book |-> b, ret |-> FALSE]

issue_toggle(b) ==
    IF b.cls = "ReferenceBook" THEN [book |-> b, ret |-> FALSE]
    ELSE IF is_available(b) THEN [book |-> [b EXCEPT !.status = IssuedStatus], ret |-> TRUE]
    ELSE [book |-> [b EXCEPT !.status = Available], ret |-> FALSE]

\* Book.issue and its override ReferenceBook.issue: the record after, and the value returned
issue(b) ==
    IF b.cls = "ReferenceBook" THEN [book |-> b, ret |-> FALSE]
    ELSE IF is_available(b) THEN [book |-> [b EXCEPT !.status = IssuedStatus], ret |-> TRUE]
    ELSE [book |-> b, ret |-> FALSE]

return_book_always(b) == [book |-> [b EXCEPT !.status = Available], ret |-> TRUE]

\* Book.return_book
return_book(b) ==
    IF ~is_available(b) THEN [book |-> [b EXCEPT !.status = Available], ret |-> TRUE]
    ELSE [book |-> b, ret |-> FALSE]

----------------------------------------------------------------------------
(* Files *)

\* A file: kind "absent" (no file), "blank" (empty or whitespace only), "junk" (text that
\* is not JSON) or "array" (the text of a JSON array of items).  part marks a proper,
\* non-empty prefix of that text, which a write that stopped half way leaves behind: it
\* counts the times the text was cut short, 0 for the whole text.
File(kind, items, part) == [kind |-> kind, items |-> items, part |-> part]

Absent == File("absent", <<>>, 0)
Blank == File("blank", <<>>, 0)
Junk == File("junk", <<>>, 0)
NoFile == File("none", <<>>, 0)

\* json.dump(data, f) run to completion
Doc(items) == File("array", items, 0)

\* what is left of content c when the write of it stops after some, not all, of its text
Prefix(c) == [c EXCEPT !.part = @ + 1]

\* json.loads(raw) returns rather than raising JSONDecodeError
Parses(c) == c.kind = "array" /\ c.part = 0

Corrupted(c) == c.kind = "junk" \/ (c.kind = "array" /\ c.part > 0)

----------------------------------------------------------------------------
(* LibraryInventory *)

\* LibraryInventory.search_by_isbn: the position of the first record whose isbn is the
\* stripped query, 0 for None
search_by_isbn(bs, isbn_query) ==
    LET hits == {i \in 1..Len(bs) : bs[i].isbn = strip(isbn_query)}
    IN  IF hits = {} THEN 0 ELSE CHOOSE i \in hits : \A j \in hits : i <= j

add_book_unchecked(bs, book) == [books |-> Append(bs, book), ret |-> TRUE]

\* LibraryInventory.add_book
add_book(bs, book) ==
    IF search_by_isbn(bs, book.isbn) # 0 THEN [books |-> bs, ret |-> FALSE]
    ELSE [books |-> Append(bs, book), ret |-> TRUE]

\* The points at which an I/O call of save_catalog or load_catalog can fail:
\*   read                 opening or reading the catalog
\*   open, trunc, partial opening the catalog for writing; writing it, with nothing or
\*                        with part of the text on disk
\*   rename               catalog_path.replace(backup_path)
\*   bk_open, bk_trunc, bk_partial   the same for the backup file
search_by_title_cased(bs, title_query) ==
    LET q == lower(strip(title_query))
    IN  SelectSeq(bs, LAMBDA b : Contains(q, b.title))

\* LibraryInventory.search_by_title: the records, in store order, whose lower-cased title
\* has the stripped, lower-cased query in it
search_by_title(bs, title_query) ==
    LET q == lower(strip(title_query))
    IN  SelectSeq(bs, LAMBDA b : Contains(q, lower(b.title)))

\* LibraryInventory.display_all
display_all(bs) == [i \in 1..Len(bs) |-> str(bs[i])]

SaveFaults == {"none", "open", "trunc", "partial"}
LoadFaults == SaveFaults \cup {"read", "rename", "bk_open", "bk_trunc", "bk_partial"}

\* open(path, "w") followed by a write of content next, with fault f, over a file old
Written(old, next, f) ==
    CASE f = "open" -> old
      [] f = "trunc" -> Blank
      [] f = "partial" -> Prefix(next)
      [] OTHER -> next

\* the data save_catalog serializes
Dump(bs) == [i \in 1..Len(bs) |-> to_dict(bs[i])]

\* LibraryInventory.save_catalog
save_catalog(bs, dsk, fault) ==
    [disk |-> Written(dsk, Doc(Dump(bs)), fault), ret |-> fault = "none"]

LoadResult(bs, dsk, bkp, ret, outcome) ==
    [books |-> bs, disk |-> dsk, backup |-> bkp, ret |-> ret, outcome |-> outcome]

\* [Book.from_dict(item) for item in data]
Decoded(items) == [i \in 1..Len(items) |-> from_dict(items[i])]

\* the decodable elements before the first one from_dict raises on
RECURSIVE GoodPrefix(_)
GoodPrefix(items) ==
    IF items = <<>> \/ ~from_dict_ok(Head(items)) THEN <<>>
    ELSE <<Head(items)>> \o GoodPrefix(Tail(items))

LoadArray_partial(bs, dsk, bkp) ==
    IF \A i \in 1..Len(dsk.items) : from_dict_ok(dsk.items[i])
    THEN LoadResult(Decoded(dsk.items), dsk, bkp, TRUE, "loaded")
    ELSE LoadResult(Decoded(GoodPrefix(dsk.items)), dsk, bkp, FALSE, "error")

\* load_catalog once json.loads has returned the array: every element decoded and the
\* list assigned, or the first exception caught by "except Exception"
LoadArray(bs, dsk, bkp) ==
    IF \A i \in 1..Len(dsk.items) : from_dict_ok(dsk.items[i])
    THEN LoadResult(Decoded(dsk.items), dsk, bkp, TRUE, "loaded")
    ELSE LoadResult(<<>>, dsk, bkp, FALSE, "error")

\* load_catalog, choice "r": reset the catalog file
ResetCatalog(bs, dsk, bkp, fault) ==
    IF fault \in {"open", "trunc", "partial"}
    THEN LoadResult(bs, Written(dsk, Doc(<<>>), fault), bkp, FALSE, "reset_failed")
    ELSE LoadResult(<<>>, Doc(<<>>), bkp, TRUE, "reset")

\* load_catalog, choice "b": back the corrupted file up, then start a new one
BackupAndReset(bs, dsk, bkp, fault) ==
    CASE fault = "rename" -> LoadResult(bs, dsk, bkp, FALSE, "backup_failed")
      [] fault = "bk_open" -> LoadResult(bs, Absent, dsk, FALSE, "backup_failed")
      [] fault = "bk_trunc" -> LoadResult(bs, Absent, Blank, FALSE, "backup_failed")
      [] fault = "bk_partial" -> LoadResult(bs, Absent, Prefix(dsk), FALSE, "backup_failed")
      [] fault \in {"open", "trunc", "partial"} ->
            LoadResult(bs, Written(Absent, Doc(<<>>), fault), dsk, FALSE, "backup_failed")
      [] OTHER -> LoadResult(<<>>, Doc(<<>>), dsk, TRUE, "backup")

StartEmpty_keep(bs, dsk, bkp, outcome) == LoadResult(bs, dsk, bkp, TRUE, outcome)

\* load_catalog on a file that is not there or is blank: self.books = []; return True
StartEmpty(bs, dsk, bkp, outcome) == LoadResult(<<>>, dsk, bkp, TRUE, outcome)

\* choice = input(...).strip().lower()
Choice(answer) == lower(strip(answer))

\* LibraryInventory.load_catalog, on a store holding bs, with the answer typed at its
\* prompt and the I/O fault fault
load_catalog(bs, dsk, bkp, answer, fault) ==
    IF dsk.kind = "absent" THEN StartEmpty(bs, dsk, bkp, "missing")
    ELSE IF fault = "read" THEN LoadResult(<<>>, dsk, bkp, FALSE, "io_error")
    ELSE IF dsk.kind = "blank" THEN StartEmpty(bs, dsk, bkp, "empty")
    ELSE IF ~Parses(dsk) THEN
        CASE Choice(answer) = <<"r">> -> ResetCatalog(bs, dsk, bkp, fault)
          [] Choice(answer) = <<"b">> -> BackupAndReset(bs, dsk, bkp, fault)
          [] OTHER -> LoadResult(<<>>, dsk, bkp, TRUE, "abort")
    ELSE LoadArray(bs, dsk, bkp)

\* the outcomes of the except json.JSONDecodeError branch
CorruptionOutcomes == {"reset", "reset_failed", "backup", "backup_failed", "abort"}

----------------------------------------------------------------------------
(* Inputs *)

\* what add_book_cli is given: title, author, isbn, and whether a reference book
NewBooks ==
    { <<<<"G", "o">>, <<"A">>, <<"1">>, FALSE>>,
      <<<<"C">>, <<"B", " ">>, <<" ", "1">>, TRUE>>,
      <<<<"C">>, <<"A">>, <<"2">>, TRUE>> }
QueryIsbns == {<<"1">>, <<" ", "2">>, <<"3">>}
\* title queries: none, one in another case than the title's, one with a space after it
QueryTitles == {<<>>, <<"g">>, <<"O", " ">>}
Answers == {<<"R">>, <<" ", "b">>, <<"n">>}

\* elements of persisted arrays: a Book, an issued ReferenceBook written by hand, an
\* element with the isbn of ItemGo, no status, an unknown type and an extra key, an
\* element without isbn, and an element that is no object
ItemGo ==
    [title |-> <<"G", "o">>, author |-> <<"A">>, isbn |-> <<"1">>,
     status |-> Available, type |-> "Book"]
ItemRef ==
    [title |-> <<"C">>, author |-> <<"A">>, isbn |-> <<"2">>,
     status |-> <<"I", "s", "s", "u", "e", "d", " ">>, type |-> "ReferenceBook"]
ItemTwin ==
    [title |-> <<"G", "o", " ">>, author |-> <<"A">>, isbn |-> <<" ", "1">>,
     type |-> "Magazine", shelf |-> <<"4">>]
ItemNoIsbn == [title |-> <<"C">>, author |-> <<"A">>]
ItemScalar == [scalar |-> <<"7">>]

\* the files the first process may find at catalog_path
InitDisks ==
    { Absent, Blank, Junk, Doc(<<>>), Doc(<<ItemGo>>), Doc(<<ItemRef>>),
      Doc(<<ItemGo, ItemRef>>), Doc(<<ItemGo, ItemTwin>>), Doc(<<ItemGo, ItemNoIsbn>>),
      Doc(<<ItemRef, ItemScalar>>) }

----------------------------------------------------------------------------
(* The state machine *)

\* what the last operation was given, what it returned (ret, and in out the records or
\* lines of a search or a listing, the record given to add_book) and the branch it took
Op(op, arg, ret, outcome) ==
    [op |-> op, arg |-> arg, ret |-> ret, outcome |-> outcome, out |-> <<>>]

NoSave == [valid |-> FALSE, books |-> <<>>]

Init ==
    /\ books = <<>>
    /\ disk \in InitDisks
    /\ backup = Absent
    /\ running = FALSE
    /\ res = Op("none", <<>>, TRUE, "none")
    /\ detected = NoFile
    /\ ops = 0
    /\ saved = NoSave

\* one more operation, while the behaviour has operations left
Tick == ops < MaxOps /\ ops' = ops + 1

\* the I/O calls load_catalog makes on the file dsk with the answer given, as the faults
\* that can strike them
FaultsOfLoad(dsk, answer) ==
    IF dsk.kind = "absent" THEN {"none"}
    ELSE IF dsk.kind = "blank" \/ Parses(dsk) THEN {"none", "read"}
    ELSE CASE Choice(answer) = <<"r">> -> {"none", "read", "open", "trunc", "partial"}
           [] Choice(answer) = <<"b">> -> LoadFaults
           [] OTHER -> {"none", "read"}

\* load_catalog run on the store as it is
LoadStep(op, answer, fault) ==
    LET r == load_catalog(books, disk, backup, answer, fault)
    IN  /\ books' = r.books
        /\ disk' = r.disk
        /\ backup' = r.backup
        /\ running' = TRUE
        /\ res' = Op(op, Choice(answer), r.ret, r.outcome)
        /\ detected' = IF r.outcome \in CorruptionOutcomes
                       THEN (IF Choice(answer) = <<"r">> THEN NoFile ELSE disk)
                       ELSE detected
        /\ saved' = IF r.disk # disk THEN NoSave ELSE saved

\* LibraryInventory.__init__, as main() runs it: an empty store, then load_catalog
Start ==
    /\ Tick
    /\ ~running
    /\ \E answer \in Answers : \E fault \in FaultsOfLoad(disk, answer) :
            LoadStep("start", answer, fault)

\* LibraryInventory.load_catalog called on a live store
Load ==
    /\ Tick
    /\ running
    /\ \E answer \in Answers : \E fault \in FaultsOfLoad(disk, answer) :
            LoadStep("load", answer, fault)

\* add_book_cli: a Book or ReferenceBook built from the input, then add_book
AddBook ==
    /\ Tick
    /\ running
    /\ \E in \in NewBooks :
        LET book == IF in[4] THEN ReferenceBook(in[1], in[2], in[3], Available)
                            ELSE Book(in[1], in[2], in[3], Available)
            r == add_book(books, book)
        IN  /\ r.ret => Len(books) < MaxBooks
            /\ books' = r.books
            /\ res' = [Op("add", book.isbn, r.ret, IF r.ret THEN "added" ELSE "duplicate")
                          EXCEPT !.out = <<book>>]
    /\ UNCHANGED <<disk, backup, running, detected, saved>>

\* issue_book_cli
IssueBook ==
    /\ Tick
    /\ running
    /\ \E isbn \in QueryIsbns :
        LET i == search_by_isbn(books, strip(isbn))
        IN  IF i = 0
            THEN /\ books' = books
                 /\ res' = Op("issue", strip(isbn), FALSE, "notfound")
            ELSE IF books[i].cls = "ReferenceBook"
            THEN /\ books' = books
                 /\ res' = Op("issue", strip(isbn), FALSE, "reference")
            ELSE LET r == issue(books[i])
                 IN  /\ books' = [books EXCEPT ![i] = r.book]
                     /\ res' = Op("issue", strip(isbn), r.ret,
                                  IF r.ret THEN "issued" ELSE "unavailable")
    /\ UNCHANGED <<disk, backup, running, detected, saved>>

\* return_book_cli
ReturnBook ==
    /\ Tick
    /\ running
    /\ \E isbn \in QueryIsbns :
        LET i == search_by_isbn(books, strip(isbn))
        IN  IF i = 0
            THEN /\ books' = books
                 /\ res' = Op("return", strip(isbn), FALSE, "notfound")
            ELSE LET r == return_book(books[i])
                 IN  /\ books' = [books EXCEPT ![i] = r.book]
                     /\ res' = Op("return", strip(isbn), r.ret,
                                  IF r.ret THEN "returned" ELSE "already")
    /\ UNCHANGED <<disk, backup, running, detected, saved>>

\* LibraryInventory.search_by_isbn, as search_cli (choice 2) calls it
SearchIsbn ==
    /\ Tick
    /\ running
    /\ \E q \in QueryIsbns :
        LET i == search_by_isbn(books, q)
        IN  res' = [Op("search_isbn", q, i # 0, IF i # 0 THEN "found" ELSE "notfound")
                       EXCEPT !.out = IF i # 0 THEN <<books[i]>> ELSE <<>>]
    /\ UNCHANGED <<books, disk, backup, running, detected, saved>>

\* LibraryInventory.search_by_title, as search_cli (choice 1) calls it
SearchTitle ==
    /\ Tick
    /\ running
    /\ \E q \in QueryTitles :
        LET results == search_by_title(books, q)
        IN  res' = [Op("search_title", q, results # <<>>,
                       IF results # <<>> THEN "found" ELSE "notfound")
                       EXCEPT !.out = results]
    /\ UNCHANGED <<books, disk, backup, running, detected, saved>>

\* view_all_cli: LibraryInventory.display_all
ViewAll ==
    /\ Tick
    /\ running
    /\ res' = [Op("view", <<>>, books # <<>>, IF books # <<>> THEN "listed" ELSE "empty_list")
                   EXCEPT !.out = display_all(books)]
    /\ UNCHANGED <<books, disk, backup, running, detected, saved>>

\* save_catalog run on the store as it is
SaveStep(op, fault, stop) ==
    LET r == save_catalog(books, disk, fault)
    IN  /\ disk' = r.disk
        /\ books' = IF stop THEN <<>> ELSE books
        /\ running' = ~stop
        /\ res' = Op(op, <<>>, r.ret, IF r.ret THEN "saved" ELSE "save_failed")
        /\ saved' = IF r.ret THEN [valid |-> TRUE, books |-> books]
                    ELSE IF r.disk # disk THEN NoSave ELSE saved
        /\ UNCHANGED <<backup, detected>>

\* main(), choice 6: save_catalog
Save ==
    /\ Tick
    /\ running
    /\ \E fault \in SaveFaults : SaveStep("save", fault, FALSE)

\* main(), choice 7: save_catalog, then leave whatever it returned
ExitSave ==
    /\ Tick
    /\ running
    /\ \E fault \in SaveFaults : SaveStep("exit_save", fault, TRUE)

\* main(), choice 8
ExitNoSave ==
    /\ Tick
    /\ running
    /\ running' = FALSE
    /\ books' = <<>>
    /\ res' = Op("exit", <<>>, TRUE, "exit")
    /\ UNCHANGED <<disk, backup, detected, saved>>

Next ==
    \/ Start
    \/ Load
    \/ AddBook
    \/ IssueBook
    \/ ReturnBook
    \/ SearchIsbn
    \/ SearchTitle
    \/ ViewAll
    \/ Save
    \/ ExitSave
    \/ ExitNoSave

Spec == Init /\ [][Next]_vars

----------------------------------------------------------------------------
(* Properties *)

Loads == {"start", "load"}
Saves == {"save", "exit_save"}

\* the step taken is a run of load_catalog, of save_catalog, of add_book
LoadTaken == ops' # ops /\ res'.op \in Loads
SaveTaken == ops' # ops /\ res'.op \in Saves
AddTaken == ops' # ops /\ res'.op = "add"

\* the positions of the records of bs whose isbn is id
Holders(bs, id) == {i \in 1..Len(bs) : bs[i].isbn = id}

\* the record sequences that are "the complete sequence decoded from" file c: the
\* decoded array, and no records for a file that is missing or blank
SourceRecords(c) ==
    IF c.kind \in {"absent", "blank"} THEN {<<>>}
    ELSE IF Parses(c) /\ \A i \in 1..Len(c.items) : from_dict_ok(c.items[i])
         THEN {Decoded(c.items)}
         ELSE {}

\* C1: in every reachable state the record sequence holds no two Records with equal id.
\* The code does not keep this: load_catalog assigns whatever the persisted array decodes
\* to, and an array with two elements of one isbn gives two records with that isbn.
C1_UniqueIds ==
    \A i, j \in 1..Len(books) : i # j => books[i].isbn # books[j].isbn

\* C2: in every reachable state every ReferenceBook record has status available.
\* The code does not keep this: from_dict passes the persisted status to ReferenceBook.
C2_ReferenceAlwaysAvailable ==
    \A i \in 1..Len(books) : books[i].cls = "ReferenceBook" => books[i].status = Available

\* C3: an add of a record whose id a record of the store already has returns false, leaves
\* the record sequence unchanged, and exactly one record with that id remains.
\* The last part fails in a store that load_catalog filled with two records of one id (C1).
C3_DuplicateAddRejected ==
    [][(AddTaken /\ Holders(books, res'.arg) # {})
        => /\ res'.ret = FALSE
           /\ books' = books
           /\ Cardinality(Holders(books', res'.arg)) = 1]_vars

\* the part of C3 the code keeps: a rejected add returns false and changes no record
RejectedAddKeepsStore ==
    [][(AddTaken /\ Holders(books, res'.arg) # {})
        => res'.ret = FALSE /\ res'.outcome = "duplicate" /\ books' = books]_vars

\* C4: whatever happens during save, the file afterwards holds the complete catalog it held
\* before or the complete new one.  save_catalog opens the file for writing, which empties
\* it, and then writes: a write that fails leaves neither.
C4_SaveAtomic ==
    [][SaveTaken => (disk' = disk \/ disk' = Doc(Dump(books)))]_vars

\* C5 as stated: after load the record sequence is the complete sequence decoded from the
\* source or the sequence the store held before the call.
C5_LoadAllOrNothing ==
    [][LoadTaken => books' \in SourceRecords(disk) \cup {books}]_vars

\* C5 as amended: load never leaves part of the source in the store; after load the record
\* sequence is the complete sequence decoded from the source, the sequence the store held
\* before the call, or empty.
C5_LoadNeverPartial ==
    [][LoadTaken => books' \in SourceRecords(disk) \cup {books, <<>>}]_vars

\* a load that met an undecodable element after a decodable one
C5_Witness ==
    /\ res.op \in Loads /\ res.outcome = "error"
    /\ disk = Doc(<<ItemGo, ItemNoIsbn>>)
    /\ books = <<>>

\* C6: once load has detected unparseable content, abort leaves the disk untouched, and no
\* later add, issue, return, save or exit takes the content off the disk (the catalog path
\* or the backup path) unless reset was chosen.  A save after an abort overwrites it.
C6_CorruptedKept ==
    [][/\ (LoadTaken /\ res'.outcome = "abort") => disk' = disk
       /\ (/\ ops' # ops /\ res'.op \notin Loads
           /\ detected # NoFile
           /\ (disk = detected \/ backup = detected))
           => (disk' = detected \/ backup' = detected)]_vars

\* C7: after load on unparseable content, whichever of reset, backup and abort was chosen,
\* the store holds no records.  A reset or backup that fails leaves the records it held.
C7_CorruptionLeavesEmpty ==
    (res.op \in Loads /\ res.outcome \in CorruptionOutcomes) => books = <<>>

\* C8: load of an array with an element that lacks a required field or is no object
\* takes the corruption path (the one offering reset, backup and abort) and does not keep
\* the elements before the bad one.  The code takes the "except Exception" path instead.
C8_BadElementIsCorruption ==
    [][(/\ LoadTaken
        /\ Parses(disk)
        /\ \E i \in 1..Len(disk.items) : ~from_dict_ok(disk.items[i])
        /\ res'.outcome # "io_error")
        => res'.outcome \in CorruptionOutcomes /\ books' = <<>>]_vars

\* C9: a load that succeeds on the file a successful save wrote yields the record sequence
\* that was saved: same length and order, each record with the same title, author, isbn,
\* status and class.
C9_SaveLoadRoundTrip ==
    (res.op \in Loads /\ res.outcome = "loaded" /\ saved.valid) => books = saved.books

\* a fresh process that loaded a saved catalog holding an issued Book
C9_Witness ==
    /\ res.op = "start" /\ res.outcome = "loaded" /\ saved.valid
    /\ \E i \in 1..Len(books) : books[i].cls = "Book" /\ books[i].status = IssuedStatus

\* C10: from_dict(to_dict(r)) = r for every record r a store holds, of either class and
\* either status.
C10_CodecRoundTrip ==
    \A i \in 1..Len(books) : from_dict(to_dict(books[i])) = books[i]

\* a store holding an issued Book and a ReferenceBook
C10_Witness ==
    \E i, j \in 1..Len(books) :
        /\ books[i].cls = "Book" /\ books[i].status = IssuedStatus
        /\ books[j].cls = "ReferenceBook"

\* the step taken is a run of issue_book_cli, of return_book_cli
IssueTaken == ops' # ops /\ res'.op = "issue"
ReturnTaken == ops' # ops /\ res'.op = "return"

\* the position of the record issue_book_cli and return_book_cli act on
Target(bs, id) == search_by_isbn(bs, id)

\* C11: issue on a ReferenceBook record returns false (the command reports a reference
\* book), whatever the record's status, and changes no status: neither the issue method
\* of the record nor issue_book_cli on its isbn.
C11_ReferenceNeverIssued ==
    [][/\ \A i \in 1..Len(books) :
            books[i].cls = "ReferenceBook"
                => issue(books[i]) = [book |-> books[i], ret |-> FALSE]
       /\ (/\ IssueTaken
           /\ Target(books, res'.arg) # 0
           /\ books[Target(books, res'.arg)].cls = "ReferenceBook")
           => res'.ret = FALSE /\ res'.outcome = "reference" /\ books' = books]_vars

\* an issue refused on a ReferenceBook that the file gave the status issued
C11_Witness ==
    /\ res.op = "issue" /\ res.outcome = "reference"
    /\ books[Target(books, res.arg)].cls = "ReferenceBook"
    /\ books[Target(books, res.arg)].status = IssuedStatus

\* the status of the record issue_book_cli and return_book_cli act on, for the isbn id
StatusOf(bs, id) == bs[Target(bs, id)].status

\* C12: on a Book record (the standard variant) that is available, issue succeeds and the
\* record becomes issued; a return that follows succeeds and the record is available again;
\* a second return in a row reports already available (false), raises nothing and leaves
\* the record available. A second issue in a row reports already issued (false) and leaves
\* the record issued.
C12_IssueReturnCycle ==
    [][LET id == res'.arg
           i == Target(books, id)
           standard == i # 0 /\ books[i].cls = "Book"
       IN  /\ (IssueTaken /\ standard /\ books[i].status = Available)
                => res'.ret = TRUE /\ res'.outcome = "issued"
                   /\ StatusOf(books', id) = IssuedStatus
           /\ (ReturnTaken /\ standard /\ res.op = "issue" /\ res.outcome = "issued"
                 /\ res.arg = id)
                => res'.ret = TRUE /\ res'.outcome = "returned"
                   /\ StatusOf(books', id) = Available
           /\ (ReturnTaken /\ standard /\ res.op = "return" /\ res.outcome = "returned"
                 /\ res.arg = id)
                => res'.ret = FALSE /\ res'.outcome = "already"
                   /\ books' = books /\ StatusOf(books', id) = Available
           /\ (IssueTaken /\ standard /\ res.op = "issue" /\ res.outcome = "issued"
                 /\ res.arg = id)
                => res'.ret = FALSE /\ res'.outcome = "unavailable"
                   /\ books' = books /\ StatusOf(books', id) = IssuedStatus]_vars

\* a return refused on an available Book record, in a run long enough to have added,
\* issued and returned it first
C12_Witness ==
    /\ res.op = "return" /\ res.outcome = "already" /\ res.ret = FALSE
    /\ ops = 5 /\ disk = Absent
    /\ books = <<Book(<<"G", "o">>, <<"A">>, <<"1">>, Available)>>

\* C13: load on a file that does not exist, or that exists and is empty or holds only
\* whitespace (and that could be read), leaves the store with no records, returns true
\* without entering the corruption branch, and leaves the file, and the backup path, as
\* they were.
C13_LoadOfNothing ==
    [][(LoadTaken /\ disk.kind \in {"absent", "blank"} /\ res'.outcome # "io_error")
         => /\ books' = <<>>
            /\ res'.ret = TRUE
            /\ res'.outcome = (IF disk.kind = "absent" THEN "missing" ELSE "empty")
            /\ res'.outcome \notin CorruptionOutcomes
            /\ detected' = detected
            /\ disk' = disk /\ backup' = backup]_vars

\* load_catalog called on a running store has found the file blank
C13_Witness ==
    /\ res.op = "load" /\ res.outcome = "empty" /\ res.ret = TRUE
    /\ disk = Blank /\ books = <<>>

\* the step taken is a run of search_by_isbn, of search_by_title, of display_all
SearchIsbnTaken == ops' # ops /\ res'.op = "search_isbn"
SearchTitleTaken == ops' # ops /\ res'.op = "search_title"
ViewTaken == ops' # ops /\ res'.op = "view"

\* C14: when add_book(r) returns true, for a Book or a ReferenceBook r built from any
\* title, author and isbn, the record is appended and search_by_isbn(r.isbn) on the store
\* then finds r itself (same title, author, isbn, status and class), and a search_by_isbn
\* that comes right after the add returns it; search_by_isbn of an isbn no record holds
\* returns None (not found), not an error.
C14_AddThenFind ==
    [][/\ (AddTaken /\ res'.ret)
            => LET r == res'.out[1]
               IN  /\ books' = Append(books, r)
                   /\ search_by_isbn(books', r.isbn) = Len(books')
                   /\ books'[search_by_isbn(books', r.isbn)] = r
       /\ (SearchIsbnTaken /\ res.op = "add" /\ res.ret /\ res'.arg = res.arg)
            => res'.ret /\ res'.outcome = "found" /\ res'.out = res.out
       /\ (SearchIsbnTaken /\ Holders(books, strip(res'.arg)) = {})
            => ~res'.ret /\ res'.outcome = "notfound" /\ res'.out = <<>>]_vars

\* search_by_isbn has returned the ReferenceBook that the add right before it appended:
\* three operations on no file are the start, the add and the search
C14_Witness ==
    /\ res.op = "search_isbn" /\ res.outcome = "found" /\ res.arg = <<"1">>
    /\ ops = 3 /\ disk = Absent
    /\ books = <<ReferenceBook(<<"C">>, <<"B", " ">>, <<" ", "1">>, Available)>>
    /\ res.out = books

\* r holds exactly the records of bs at the positions idx, each once, in the order of bs
Picked(bs, idx, r) ==
    /\ Len(r) = Cardinality(idx)
    /\ \E f \in [1..Len(r) -> idx] :
        /\ \A a, b \in 1..Len(r) : a < b => f[a] < f[b]
        /\ \A k \in 1..Len(r) : r[k] = bs[f[k]]

\* the positions of the records of bs whose title has q in it, whatever the case of either
TitleHits(bs, q) == {i \in 1..Len(bs) : Contains(lower(q), lower(bs[i].title))}

BackupTaken == LoadTaken /\ res'.outcome \in {"backup", "backup_failed"}

\* C16: when load_catalog backs up a corrupted catalog and starts afresh, whatever step
\* of it fails or is cut short, the corrupted content is afterwards whole at the catalog
\* path or at the backup path; when it succeeds the backup file holds exactly that
\* content, the catalog file holds an empty list and the store is empty.
C16_BackupKeepsContent ==
    [][BackupTaken
         => /\ (disk' = disk \/ backup' = disk)
            /\ res'.ret
                 => backup' = disk /\ disk' = Doc(<<>>) /\ books' = <<>>]_vars

\* bs2 is bs but for the status of the record at position i
SameButStatus(bs, bs2, i) ==
    /\ Len(bs2) = Len(bs)
    /\ \A j \in 1..Len(bs) :
         IF j = i THEN bs2[j] = [bs[j] EXCEPT !.status = bs2[j].status]
         ELSE bs2[j] = bs[j]

\* C17: issue_book_cli and return_book_cli change at most the status of the one record
\* they act on (the first with the isbn given) and leave every other record, every other
\* field, the order and the length as they were, and change nothing when they fail;
\* search_by_title, search_by_isbn, display_all and save_catalog leave the record
\* sequence as it was. So, while the process lives, the number of records decreases
\* through load_catalog only.
C17_Frame ==
    [][/\ (IssueTaken \/ ReturnTaken)
            => /\ SameButStatus(books, books', Target(books, res'.arg))
               /\ ~res'.ret => books' = books
       /\ (SearchIsbnTaken \/ SearchTitleTaken \/ ViewTaken \/ (SaveTaken /\ running'))
            => books' = books
       /\ (running /\ running' /\ ~LoadTaken) => Len(books') >= Len(books)]_vars

\* an issue has changed the status of the second of two records and nothing else
C17_Witness ==
    /\ res.op = "issue" /\ res.ret
    /\ Len(books) = 2
    /\ books[1].isbn # res.arg /\ books[2].isbn = res.arg
    /\ books[2].status = IssuedStatus
    /\ books[1].status = Available

====
